---- MODULE Spec2Model ----
(* Model of Convertly's converter (src/app.py): convert_data and the        *)
(* /convert route handle_convert.  A payload is a Python value (str,        *)
(* BytesIO or an uploaded FileStorage) over a document; a document is kept  *)
(* in tokenised form (the CSV fields, the JSON values, the worksheet        *)
(* cells), so that pandas' readers and writers are modelled by what they do *)
(* to the fields: NA detection, per-column type inference, float/int        *)
(* rendering, read_json's coercion of object columns.                       *)
EXTENDS Integers, Sequences, FiniteSets, TLC

VARIABLES pc, hop, request, result, response, log, calls, first

vars == <<pc, hop, request, result, response, log, calls, first>>

(* ------------------------------ bounds ---------------------------------- *)
MaxCols == 2
MaxRows == 2
MaxCells == 4

(* ------------------------------ cells ----------------------------------- *)
\* One record shape for every cell: k is the kind, s its text, n its number.
Cell(k, s, n) == [k |-> k, s |-> s, n |-> n]
NullCell == Cell("null", "", 0)
StrCell(s) == Cell("str", s, 0)
IntCell(n) == Cell("int", "", n)
FltCell(n) == Cell("float", "", n)
TxtCell(s) == Cell("txt", s, 0)
NumCell(n) == Cell("num", "", n)

IsNull(c) == c.k = "null"

\* Decimal text of the integers the model uses.
Digits == <<"1", "2", "3", "4", "5", "6", "7", "8", "9", "10">>
IntText(n) == Digits[n]
FloatText(n) == Digits[n] \o ".0"
IsIntText(t) == \E n \in DOMAIN Digits : Digits[n] = t
IsFloatText(t) == \E n \in DOMAIN Digits : FloatText(n) = t
ParseNumber(t) == CHOOSE n \in DOMAIN Digits : Digits[n] = t \/ FloatText(n) = t

\* Python's float(str): accepts decimal text and, by PEP 515, digit groups
\* separated by underscores, which pandas' CSV tokenizer does not.
PyFloatOk(t) == IsIntText(t) \/ IsFloatText(t) \/ t = "1_0"
PyFloat(t) == IF t = "1_0" THEN 10 ELSE ParseNumber(t)

\* The subset of pandas' default na_values the documents can contain.
NaValues == {"", "NA", "NaN", "null"}

(* ------------------------------ tables ---------------------------------- *)
\* A DataFrame: column labels and rows of cells (a row keeps its place in the
\* index even when the frame has no column).
Table(cols, rows) == [cols |-> cols, rows |-> rows]
NoTable == Table(<<>>, <<>>)

Column(t, j) == [i \in 1..Len(t.rows) |-> t.rows[i][j]]

RECURSIVE Pick(_, _, _)
\* The elements of s at the indices in keep, from index i on, in order.
Pick(s, keep, i) ==
  IF i > Len(s) THEN <<>>
  ELSE IF i \in keep THEN <<s[i]>> \o Pick(s, keep, i + 1)
  ELSE Pick(s, keep, i + 1)

\* Variant with how='any': a column survives iff no cell is null.
DropNullColsAny(t) ==
  LET keep == {j \in 1..Len(t.cols) : \A i \in 1..Len(t.rows) : ~IsNull(t.rows[i][j])}
  IN Table(Pick(t.cols, keep, 1), [i \in 1..Len(t.rows) |-> Pick(t.rows[i], keep, 1)])
\* df.dropna(axis=1, how='all'): a column survives iff some cell is not null.
DropNullCols(t) ==
  LET keep == {j \in 1..Len(t.cols) : \E i \in 1..Len(t.rows) : ~IsNull(t.rows[i][j])}
  IN Table(Pick(t.cols, keep, 1), [i \in 1..Len(t.rows) |-> Pick(t.rows[i], keep, 1)])

\* Variant with how='any': a row survives iff no cell is null.
DropNullRowsAny(t) ==
  LET keep == {i \in 1..Len(t.rows) : \A j \in 1..Len(t.cols) : ~IsNull(t.rows[i][j])}
  IN Table(t.cols, Pick(t.rows, keep, 1))
\* df.dropna(axis=0, how='all'): a row survives iff some cell is not null.
DropNullRows(t) ==
  LET keep == {i \in 1..Len(t.rows) : \E j \in 1..Len(t.cols) : ~IsNull(t.rows[i][j])}
  IN Table(t.cols, Pick(t.rows, keep, 1))

\* Lines 49-50: columns first, then rows.
Normalize(t) == DropNullRows(DropNullCols(t))

\* Variant in which the emptiness test never fires.
IsEmptyNever(t) == FALSE
\* df.empty: some axis has length 0.
IsEmpty(t) == Len(t.cols) = 0 \/ Len(t.rows) = 0

(* ----------------------------- documents -------------------------------- *)
\* The content of a payload, tokenised.  form is what the text or bytes are:
\*   "csv"    delimited text: header fields, then the fields of each line
\*   "ragged" delimited text with a data line longer than the two before it
\*   "json"   an array of records (header: the keys, rows: the values)
\*   "xlsx"   a workbook whose first sheet has this header row and these rows
\*   "b64"    the base64 text of such a workbook
\*   "binary" bytes that are neither UTF-8 text nor a workbook
\*   "empty"  nothing at all
Doc(form, header, rows) == [form |-> form, header |-> header, rows |-> rows]
NoneValue == Doc("None", <<>>, <<>>)

\* What a pandas reader gives: a frame, or the exception it raised.
Ok(t) == [ok |-> TRUE, df |-> t, err |-> ""]
Raise(e) == [ok |-> FALSE, df |-> NoTable, err |-> e]

\* read_csv's inference for one column of field texts.
CsvColumnKind(toks) ==
  LET vals == {toks[i] : i \in DOMAIN toks}
      nonNA == vals \ NaValues
  IN IF nonNA = {} THEN "float"
     ELSE IF vals = nonNA /\ \A t \in nonNA : IsIntText(t) THEN "int"
     ELSE IF \A t \in nonNA : IsIntText(t) \/ IsFloatText(t) THEN "float"
     ELSE "object"

CsvCell(kind, t) ==
  IF t \in NaValues THEN NullCell
  ELSE IF kind = "int" THEN IntCell(ParseNumber(t))
  ELSE IF kind = "float" THEN FltCell(ParseNumber(t))
  ELSE StrCell(t)

\* pd.read_csv on well-formed delimited text: blank lines are skipped
\* (skip_blank_lines), the first line names the columns, and each column is
\* typed as a whole.
ParseCsv(doc) ==
  LET lines == SelectSeq(doc.rows, LAMBDA r : r /= <<TxtCell("")>>)
      kind == [j \in 1..Len(doc.header) |->
                 CsvColumnKind([i \in 1..Len(lines) |-> lines[i][j].s])]
  IN Table(doc.header,
           [i \in 1..Len(lines) |->
              [j \in 1..Len(doc.header) |-> CsvCell(kind[j], lines[i][j].s)]])

\* pd.read_csv on JSON text depends on how the text is laid out, which the
\* tokenised document does not record: it raises a ParserError, or reads a
\* frame with the header only, or a frame of one column of text.
CsvOnJsonOutcomes == {"raise", "headerOnly", "oneColumn"}

read_csv(doc, env) ==
  CASE doc.form = "csv" -> Ok(ParseCsv(doc))
    [] doc.form = "ragged" ->
         Raise("Error tokenizing data. C error: Expected 1 fields in line 3, saw 2")
    [] doc.form = "empty" -> Raise("No columns to parse from file")
    [] doc.form = "json" ->
         IF env.csvOnJson = "raise"
         THEN Raise("Error tokenizing data. C error: Expected 1 fields in line 3, saw 2")
         ELSE IF env.csvOnJson = "headerOnly" THEN Ok(Table(<<"[">>, <<>>))
         ELSE Ok(Table(<<"[">>, <<<<StrCell("{")>>, <<StrCell("}")>>>>))
    [] doc.form = "b64" -> Ok(Table(<<"UEsDBBQ">>, <<>>))
    [] OTHER -> Raise("'utf-8' codec can't decode byte 0x9c in position 10")

\* pd.read_json's treatment of one column of decoded values: the frame's own
\* dtype, then _try_convert_data (dtype=True): an object column is cast to
\* float64 when every value converts under float(), and a float column with
\* no NaN whose values are integral becomes int64.  (The date and axis
\* conversions of read_json act on labels that look like dates or numbers;
\* the labels drawn here, a to d, are neither.)
JsonNumber(c) == IF c.k = "str" THEN PyFloat(c.s) ELSE c.n
JsonColumn(cells) ==
  LET vals == {cells[i] : i \in DOMAIN cells}
      hasNull == \E c \in vals : IsNull(c)
      hasStr == \E c \in vals : c.k = "str"
      coercible == ~hasNull /\ \A c \in vals : c.k = "str" => PyFloatOk(c.s)
  IN IF hasStr
     THEN IF coercible THEN [i \in DOMAIN cells |-> IntCell(JsonNumber(cells[i]))]
          ELSE cells
     ELSE IF hasNull
     THEN [i \in DOMAIN cells |->
             IF IsNull(cells[i]) THEN NullCell ELSE FltCell(cells[i].n)]
     ELSE [i \in DOMAIN cells |-> IntCell(cells[i].n)]

ParseJson(doc) ==
  LET raw == Table(doc.header, doc.rows)
      col == [j \in 1..Len(doc.header) |-> JsonColumn(Column(raw, j))]
  IN Table(doc.header,
           [i \in 1..Len(doc.rows) |-> [j \in 1..Len(doc.header) |-> col[j][i]]])

\* Line 34-35: the text (decoded as UTF-8 when it arrives as bytes) through
\* pd.read_json.
read_json(doc) ==
  CASE doc.form = "json" -> Ok(ParseJson(doc))
    [] doc.form \in {"xlsx", "binary"} ->
         Raise("'utf-8' codec can't decode byte 0x9c in position 10")
    [] OTHER -> Raise("Expected object or value")

\* The first sheet of a workbook: numeric cells are ints when integral, an
\* empty cell is NaN, and a numeric column holding NaN is float64.
XlsxColumn(cells) ==
  LET vals == {cells[i] : i \in DOMAIN cells}
      hasNull == \E c \in vals : IsNull(c)
      hasStr == \E c \in vals : c.k = "str"
  IN [i \in DOMAIN cells |->
        IF cells[i].k /= "num" THEN cells[i]
        ELSE IF hasNull /\ ~hasStr THEN FltCell(cells[i].n)
        ELSE IntCell(cells[i].n)]

ParseXlsx(doc) ==
  LET raw == Table(doc.header, doc.rows)
      col == [j \in 1..Len(doc.header) |-> XlsxColumn(Column(raw, j))]
  IN Table(doc.header,
           [i \in 1..Len(doc.rows) |-> [j \in 1..Len(doc.header) |-> col[j][i]]])

\* The workbook pd.read_excel finds when a str argument names a file that
\* exists on the server.
ServerWorkbook == Doc("xlsx", <<"a">>, <<<<StrCell("x")>>>>)
PathOutcomes == {"missing", "present"}
NoEngine == "Missing optional dependency 'openpyxl'."

\* pd.read_excel(input_data): a str argument is a path, anything else is
\* read as the bytes of a workbook.
read_excel(payload, env) ==
  IF payload.py = "str"
  THEN IF env.path = "missing" THEN Raise("[Errno 2] No such file or directory")
       ELSE IF env.openpyxl THEN Ok(ParseXlsx(ServerWorkbook))
       ELSE Raise(NoEngine)
  ELSE IF payload.doc.form /= "xlsx"
  THEN Raise("Excel file format cannot be determined, you must specify an engine manually.")
  ELSE IF env.openpyxl THEN Ok(ParseXlsx(payload.doc))
  ELSE Raise(NoEngine)

(* ----------------------------- writers ---------------------------------- *)
CsvField(c) ==
  CASE c.k = "null" -> ""
    [] c.k = "int" -> IntText(c.n)
    [] c.k = "float" -> FloatText(c.n)
    [] OTHER -> c.s

\* df.to_csv(index=False): the header, then one line per row.
to_csv(t) ==
  Doc("csv", t.cols,
      [i \in 1..Len(t.rows) |->
         [j \in 1..Len(t.cols) |-> TxtCell(CsvField(t.rows[i][j]))]])

\* df.to_json(orient='records', indent=4): one object per row, keys in column
\* order; NaN is written as null.
to_json(t) ==
  Doc("json", t.cols,
      [i \in 1..Len(t.rows) |-> [j \in 1..Len(t.cols) |-> t.rows[i][j]]])

XlsxCell(c) == IF c.k \in {"int", "float"} THEN NumCell(c.n) ELSE c

\* Lines 70-76: the frame written to Sheet1 of a workbook in memory, and the
\* workbook's bytes base64-encoded.
to_excel(t) ==
  Doc("xlsx", t.cols,
      [i \in 1..Len(t.rows) |-> [j \in 1..Len(t.cols) |-> XlsxCell(t.rows[i][j])]])
b64encode(doc) == [doc EXCEPT !.form = "b64"]
b64decode(doc) == [doc EXCEPT !.form = "xlsx"]

(* ---------------------------- convert_data ------------------------------ *)
Formats == {"csv", "json", "excel"}

\* A Python value handed to convert_data: py is its type, doc its content.
Payload(py, doc) == [py |-> py, doc |-> doc]
NoPayload == Payload("None", NoneValue)

\* What the call finds around it: how pandas lays out JSON text read as CSV,
\* whether a str given to read_excel names a file, and whether the openpyxl
\* engine is installed.
Envs == [csvOnJson : CsvOnJsonOutcomes, path : PathOutcomes, openpyxl : BOOLEAN]

\* Lines 23-43: the reader the input format selects; for any other format no
\* reader runs and df stays None.
ReadInput(input_data, input_format, env) ==
  CASE input_format = "csv" -> read_csv(input_data.doc, env)
    [] input_format = "json" -> read_json(input_data.doc)
    [] input_format = "excel" -> read_excel(input_data, env)
    [] OTHER -> Ok(NoTable)

\* The reader calls convert_data makes (none for an unsupported format).
ReaderCalls(input_format) ==
  CASE input_format = "csv" -> <<"read_csv">>
    [] input_format = "json" -> <<"read_json">>
    [] input_format = "excel" -> <<"read_excel">>
    [] OTHER -> <<>>

\* The pair convert_data returns.  A message is kept as the sequence of the
\* segments of its f-string, so that the exception's text can be found in it.
Return(content, second) == [content |-> content, second |-> second]

MimeCsv == "text/csv"
MimeJson == "application/json"
MimeXlsx == "application/vnd.openxmlformats-officedocument.spreadsheetml.sheet"

UnsupportedInput == <<"Unsupported input format or data type.">>
UnsupportedOutput == <<"Unsupported output format.">>
EmptyData == <<"Data is empty after processing.">>

\* How the body of convert_data ends: the pair returned, the entries written
\* to app.logger, and the text of the exception raised ("" when none was).
Quiet(ret) == [ret |-> ret, logged |-> <<>>, raised |-> ""]

\* Variant that does not log.
CaughtSilent(e) ==
  [ret |-> Return(NoneValue, <<"Error during conversion: ", e>>),
   logged |-> <<>>, raised |-> e]
\* Variant whose message leaves the exception's text out.
CaughtGeneric(e) ==
  [ret |-> Return(NoneValue, <<"Error during conversion.">>),
   logged |-> <<<<"Conversion error: ", e>>>>, raised |-> e]
\* Lines 85-88: the except clause logs the exception and returns its text.
Caught(e) ==
  [ret |-> Return(NoneValue, <<"Error during conversion: ", e>>),
   logged |-> <<<<"Conversion error: ", e>>>>, raised |-> e]

\* Variant that writes CSV for any tag that is not json or excel.
WriteOutputDefaultCsv(df, output_format, env) ==
  CASE output_format = "json" -> Quiet(Return(to_json(df), <<MimeJson>>))
    [] output_format = "excel" ->
         IF env.openpyxl THEN Quiet(Return(b64encode(to_excel(df)), <<MimeXlsx>>))
         ELSE Caught(NoEngine)
    [] OTHER -> Quiet(Return(to_csv(df), <<MimeCsv>>))
\* Lines 58-83, for a frame that is not empty.
WriteOutput(df, output_format, env) ==
  CASE output_format = "csv" -> Quiet(Return(to_csv(df), <<MimeCsv>>))
    [] output_format = "json" -> Quiet(Return(to_json(df), <<MimeJson>>))
    [] output_format = "excel" ->
         IF env.openpyxl THEN Quiet(Return(b64encode(to_excel(df)), <<MimeXlsx>>))
         ELSE Caught(NoEngine)
    [] OTHER -> Quiet(Return(NoneValue, UnsupportedOutput))

\* Lines 14-88.  Beside the pair returned (content, second) the record keeps
\* what the call did: logged and raised as above, called (the readers run),
\* parsedOk and parsed (the frame as read), and df (the frame after dropna).
convert_data(input_data, input_format, output_format, env) ==
  LET read == ReadInput(input_data, input_format, env)
      supported == input_format \in Formats
      df == Normalize(read.df)
      end == IF ~supported THEN Quiet(Return(NoneValue, UnsupportedInput))
             ELSE IF ~read.ok THEN Caught(read.err)
             ELSE IF IsEmpty(df) THEN Quiet(Return(NoneValue, EmptyData))
             ELSE WriteOutput(df, output_format, env)
  IN [content |-> end.ret.content, second |-> end.ret.second,
      logged |-> end.logged, raised |-> end.raised,
      called |-> ReaderCalls(input_format),
      parsedOk |-> supported /\ read.ok,
      parsed |-> IF supported /\ read.ok THEN read.df ELSE NoTable,
      df |-> IF supported /\ read.ok THEN df ELSE NoTable]

NoResult ==
  [content |-> NoneValue, second |-> <<>>, logged |-> <<>>, raised |-> "",
   called |-> <<>>, parsedOk |-> FALSE, parsed |-> NoTable, df |-> NoTable]

(* --------------------------- handle_convert ----------------------------- *)
\* The JSON answer of the route: keys are the fields the body carries.
Response(status, keys, error, content, mimeType, isBase64) ==
  [status |-> status, keys |-> keys, error |-> error, content |-> content,
   mimeType |-> mimeType, isBase64 |-> isBase64]
NoResponse == Response(0, {}, <<>>, NoneValue, <<>>, FALSE)
ErrorResponse(msg) == Response(400, {"error"}, msg, NoneValue, <<>>, FALSE)

\* Lines 106-130: the input the form yields, or the answer that ends the
\* request before convert_data is called.
Rejection(dataSource, payload, input_format) ==
  CASE dataSource = "file" ->
         IF payload = NoPayload THEN <<"No file selected for upload.">> ELSE <<>>
    [] dataSource = "paste" ->
         IF payload = NoPayload \/ payload.doc.form = "empty"
         THEN <<"No data pasted.">>
         ELSE IF input_format = "excel"
         THEN <<"Excel conversion is only supported via file upload.">>
         ELSE <<>>
    [] OTHER -> <<"Invalid data source specified.">>

\* Lines 112-116 and 124.
InputData(dataSource, payload, input_format) ==
  IF dataSource = "file" /\ input_format = "excel"
  THEN Payload("BytesIO", payload.doc)
  ELSE payload

\* Variant that flags every output but csv.
IsBase64NotCsv(output_format) == output_format /= "csv"
\* Line 140.
IsBase64(output_format) == output_format = "excel"

\* Variant without the test of line 135.
AnswerNoCheck(r, output_format) ==
  Response(200, {"success", "content", "mimeType", "isBase64"}, <<>>,
           r.content, r.second, IsBase64(output_format))
\* Lines 135-147.
Answer(r, output_format) ==
  IF r.content = NoneValue THEN ErrorResponse(r.second)
  ELSE Response(200, {"success", "content", "mimeType", "isBase64"}, <<>>,
                r.content, r.second, IsBase64(output_format))

(* ------------------------- the requests drawn --------------------------- *)
ColNames == <<"a", "b", "c", "d">>
Header(c) == SubSeq(ColNames, 1, c)

Shapes == {sh \in (1..MaxCols) \X (0..MaxRows) : sh[1] * sh[2] <= MaxCells}
DocsOf(form, cells, shapes) ==
  UNION {{Doc(form, Header(sh[1]), g) : g \in [1..sh[2] -> [1..sh[1] -> cells]]} :
         sh \in shapes}

\* Field texts of the CSV documents: an empty field, a word, a number and a
\* digit group that float() reads and the CSV tokenizer does not.
CsvTokens == {"", "x", "7", "1_0"}
CsvDocs == DocsOf("csv", {TxtCell(t) : t \in CsvTokens}, Shapes)

\* The example of the specification: "a,b\n1,2\n,\n3,4\n".
ExampleCsv ==
  Doc("csv", <<"a", "b">>,
      <<<<TxtCell("1"), TxtCell("2")>>, <<TxtCell(""), TxtCell("")>>,
        <<TxtCell("3"), TxtCell("4")>>>>)

JsonValues == {NullCell, StrCell("x"), StrCell("7")}
JsonDocs ==
  {Doc("json", <<>>, <<>>)} \cup DocsOf("json", JsonValues, {sh \in Shapes : sh[2] > 0})

XlsxValues == {NullCell, StrCell("x"), NumCell(7)}
XlsxDocs == DocsOf("xlsx", XlsxValues, Shapes)

RaggedCsv == Doc("ragged", <<>>, <<>>)
BinaryJunk == Doc("binary", <<>>, <<>>)
EmptyDoc == Doc("empty", <<>>, <<>>)

TextDocs == CsvDocs \cup JsonDocs \cup {ExampleCsv, RaggedCsv, EmptyDoc}
ByteDocs == TextDocs \cup XlsxDocs \cup {BinaryJunk}

\* Format tags a request can carry: the three supported ones and one other.
FormatTags == Formats \cup {"xml"}

DirectPayloads ==
  {Payload("str", d) : d \in TextDocs}
    \cup {Payload("BytesIO", d) : d \in XlsxDocs \cup {BinaryJunk, EmptyDoc}}
PastedPayloads == {Payload("str", d) : d \in TextDocs} \cup {NoPayload}
UploadedPayloads == {Payload("FileStorage", d) : d \in ByteDocs} \cup {NoPayload}

(* --------------------------- the state machine -------------------------- *)
Request(entry, dataSource, payload, input_format, output_format) ==
  [entry |-> entry, dataSource |-> dataSource, payload |-> payload,
   inputFormat |-> input_format, outputFormat |-> output_format]
NoRequest == Request("none", "", NoPayload, "", "")

Init ==
  /\ pc = "idle"
  /\ hop = 0
  /\ request = NoRequest
  /\ result = NoResult
  /\ response = NoResponse
  /\ log = <<>>
  /\ calls = <<>>
  /\ first = [request |-> NoRequest, result |-> NoResult]

\* What convert_data can return for these arguments, over the surroundings.
Returns(input_data, input_format, output_format) ==
  {convert_data(input_data, input_format, output_format, env) : env \in Envs}

\* One call of convert_data by a caller that holds the payload.
Call(payload, input_format, output_format) ==
  \E r \in Returns(payload, input_format, output_format) :
     /\ request' = Request("direct", "", payload, input_format, output_format)
     /\ result' = r
     /\ response' = NoResponse
     /\ log' = log \o r.logged
     /\ calls' = calls \o r.called

\* One POST to /convert.
Post(dataSource, payload, input_format, output_format) ==
  LET no == Rejection(dataSource, payload, input_format)
  IN /\ request' = Request("http", dataSource, payload, input_format, output_format)
     /\ IF no /= <<>>
        THEN /\ result' = NoResult
             /\ response' = ErrorResponse(no)
             /\ UNCHANGED <<log, calls>>
        ELSE \E r \in Returns(InputData(dataSource, payload, input_format),
                              input_format, output_format) :
               /\ result' = r
               /\ response' = Answer(r, output_format)
               /\ log' = log \o r.logged
               /\ calls' = calls \o r.called

ConvertDirect ==
  /\ pc = "idle"
  /\ \E payload \in DirectPayloads, fi \in FormatTags, fo \in FormatTags :
       Call(payload, fi, fo)
  /\ pc' = "done"
  /\ hop' = 1
  /\ first' = [request |-> request', result |-> result']

HandleConvertPaste ==
  /\ pc = "idle"
  /\ \E payload \in PastedPayloads, fi \in FormatTags, fo \in FormatTags :
       Post("paste", payload, fi, fo)
  /\ pc' = "done"
  /\ hop' = 1
  /\ first' = [request |-> request', result |-> result']

HandleConvertFile ==
  /\ pc = "idle"
  /\ \E payload \in UploadedPayloads, fi \in FormatTags, fo \in FormatTags :
       Post("file", payload, fi, fo)
  /\ pc' = "done"
  /\ hop' = 1
  /\ first' = [request |-> request', result |-> result']

HandleConvertOther ==
  /\ pc = "idle"
  /\ \E payload \in {NoPayload, Payload("str", ExampleCsv)},
        fi \in FormatTags, fo \in FormatTags :
       Post("link", payload, fi, fo)
  /\ pc' = "done"
  /\ hop' = 1
  /\ first' = [request |-> request', result |-> result']

\* The content of a success, as the caller holds it for a further call: the
\* text itself, or the workbook decoded from its base64 text.
Held(r, output_format) ==
  IF IsBase64(output_format) THEN b64decode(r.content) ELSE r.content

\* The caller converts what it got back into the format it started from.
ConvertBackDirect ==
  /\ pc = "done" /\ hop = 1
  /\ request.entry = "direct"
  /\ result.content /= NoneValue
  /\ Call(Payload(IF IsBase64(request.outputFormat) THEN "BytesIO" ELSE "str",
                  Held(result, request.outputFormat)),
          request.outputFormat, request.inputFormat)
  /\ hop' = 2
  /\ UNCHANGED <<pc, first>>

ConvertBackHttp ==
  /\ pc = "done" /\ hop = 1
  /\ request.entry = "http"
  /\ "success" \in response.keys
  /\ IF response.isBase64
     THEN Post("file", Payload("FileStorage", b64decode(response.content)),
               request.outputFormat, request.inputFormat)
     ELSE Post("paste", Payload("str", response.content),
               request.outputFormat, request.inputFormat)
  /\ hop' = 2
  /\ UNCHANGED <<pc, first>>

Next ==
  \/ ConvertDirect
  \/ HandleConvertPaste
  \/ HandleConvertFile
  \/ HandleConvertOther
  \/ ConvertBackDirect
  \/ ConvertBackHttp

Spec == Init /\ [][Next]_vars

(* ------------------------------ properties ------------------------------ *)
\* convert_data ran in the request the state records.
Called == result /= NoResult

\* The value convert_data was given.
Given ==
  IF request.entry = "http"
  THEN InputData(request.dataSource, request.payload, request.inputFormat)
  ELSE request.payload

Failed == result.content = NoneValue
Succeeded == Called /\ result.content /= NoneValue

\* C1 as stated: whatever the payload, a conversion with an input or output
\* format outside {csv, json, excel} returns the unsupported-format failure,
\* never a success and never a parse or empty-data failure.
C1_UnsupportedWhateverPayload ==
  (Called /\ (request.inputFormat \notin Formats \/ request.outputFormat \notin Formats))
    => Failed /\ result.second \in {UnsupportedInput, UnsupportedOutput}

\* C1 amended: an unsupported input format always gives the unsupported-input
\* failure; with a supported input format, an unsupported output format never
\* gives a success, and gives the unsupported-output failure exactly when the
\* payload parsed and rows remain, the parse failure when the reader raised,
\* and the empty-data failure when no row remains.
C1_UnsupportedAfterParse ==
  Called =>
    /\ request.inputFormat \notin Formats => Failed /\ result.second = UnsupportedInput
    /\ (request.inputFormat \in Formats /\ request.outputFormat \notin Formats) =>
         /\ Failed
         /\ result.second =
              IF ~result.parsedOk THEN <<"Error during conversion: ", result.raised>>
              ELSE IF Len(result.df.rows) = 0 THEN EmptyData
              ELSE UnsupportedOutput

C1_Witness ==
  /\ Called
  /\ request.inputFormat = "csv" /\ request.outputFormat \notin Formats
  /\ result.second = UnsupportedOutput

ExcelNeedsFile == <<"Excel conversion is only supported via file upload.">>

\* C2: a request with inputFormat = excel and a text payload is rejected with
\* the failure that excel needs a file, before any reader is called, also when
\* convert_data is called directly with a str.
C2_ExcelTextRejectedBeforeParse ==
  ( /\ pc = "done"
    /\ request.inputFormat = "excel"
    /\ request.payload.py = "str" /\ request.payload.doc.form /= "empty"
    /\ request.entry = "direct" \/ request.dataSource = "paste" )
    => /\ calls = <<>>
       /\ ExcelNeedsFile \in {result.second, response.error}

\* C3: when the parsed table has no row left after normalization, the result
\* is the empty-data failure for every output format tag, and no content is
\* returned or sent.
C3_EmptyTableFails ==
  (Called /\ result.parsedOk /\ Len(Normalize(result.parsed).rows) = 0) =>
    /\ Failed /\ result.second = EmptyData
    /\ request.entry = "http" =>
         /\ response.keys = {"error"}
         /\ response.error = EmptyData
         /\ response.content = NoneValue

C3_Witness ==
  /\ Called
  /\ request.inputFormat = "csv" /\ request.outputFormat = "excel"
  /\ request.payload.doc = Doc("csv", <<"a", "b">>, <<>>)
  /\ result.second = EmptyData

\* C4: every call returns a pair, and when a step raised, the pair is a
\* failure whose message holds the text of the exception; in particular what
\* read_json raises on text that is not JSON is in the message.
C4_FaultsBecomeFailures ==
  Called =>
    /\ result.second /= <<>>
    /\ result.raised /= "" =>
         Failed /\ \E i \in DOMAIN result.second : result.second[i] = result.raised
    /\ (request.inputFormat = "json" /\ ~read_json(Given.doc).ok) =>
         /\ Failed
         /\ result.second = <<"Error during conversion: ", read_json(Given.doc).err>>

C4_Witness ==
  /\ Called
  /\ request.inputFormat = "json" /\ request.payload.doc = RaggedCsv
  /\ result.raised = "Expected object or value"

MimeOf(output_format) ==
  CASE output_format = "csv" -> <<MimeCsv>>
    [] output_format = "json" -> <<MimeJson>>
    [] OTHER -> <<MimeXlsx>>

\* C5: on success the MIME type and the base64 flag follow from the output
\* format alone: text/csv and false for csv, application/json and false for
\* json, the spreadsheet type and true for excel.
C5_DescriptorByOutputFormat ==
  Succeeded =>
    /\ request.outputFormat \in Formats
    /\ result.second = MimeOf(request.outputFormat)
    /\ request.entry = "http" =>
         /\ response.content = result.content
         /\ response.mimeType = MimeOf(request.outputFormat)
         /\ response.isBase64 = (request.outputFormat = "excel")

C5_Witness ==
  /\ Succeeded
  /\ request.entry = "http"
  /\ request.inputFormat = "csv" /\ request.outputFormat = "excel"
  /\ response.isBase64 /\ response.mimeType = <<MimeXlsx>>

NonNullCols(t) ==
  {j \in 1..Len(t.cols) : \E i \in 1..Len(t.rows) : ~IsNull(t.rows[i][j])}
NonNullRows(t) ==
  {i \in 1..Len(t.rows) : \E j \in 1..Len(t.cols) : ~IsNull(t.rows[i][j])}

\* C6: after normalization no column and no row is entirely null, and the
\* columns and rows left are exactly the parsed table's columns and rows that
\* are not entirely null, in their order; the CSV of the specification's
\* example is left with the two rows (1, 2) and (3, 4).
C6_NormalizedTable ==
  (Called /\ result.parsedOk) =>
    LET p == result.parsed
        t == result.df
        keptRows == Pick(p.rows, NonNullRows(p), 1)
    IN /\ \A j \in 1..Len(t.cols) : \E i \in 1..Len(t.rows) : ~IsNull(t.rows[i][j])
       /\ \A i \in 1..Len(t.rows) : \E j \in 1..Len(t.cols) : ~IsNull(t.rows[i][j])
       /\ t.cols = Pick(p.cols, NonNullCols(p), 1)
       /\ Len(t.rows) = Len(keptRows)
       /\ \A i \in 1..Len(t.rows) : t.rows[i] = Pick(keptRows[i], NonNullCols(p), 1)
       /\ (request.inputFormat = "csv" /\ request.payload.doc = ExampleCsv) =>
            /\ t.cols = <<"a", "b">>
            /\ [i \in 1..Len(t.rows) |-> <<t.rows[i][1].n, t.rows[i][2].n>>]
                 = <<<<1, 2>>, <<3, 4>>>>

C6_Witness ==
  /\ Succeeded
  /\ request.inputFormat = "csv" /\ request.outputFormat = "json"
  /\ request.payload.doc = ExampleCsv
  /\ Len(result.parsed.rows) = 3 /\ Len(result.df.rows) = 2
  /\ Len(result.content.rows) = 2

\* C7: normalization is idempotent: a second pass over a normalized table
\* changes nothing.
C7_NormalizeIdempotent ==
  (Called /\ result.parsedOk) =>
    /\ Normalize(result.df) = result.df
    /\ Normalize(Normalize(result.parsed)) = Normalize(result.parsed)

C7_Witness ==
  /\ Called /\ result.parsedOk
  /\ Len(result.df.rows) > 0
  /\ Len(result.df.rows) < Len(result.parsed.rows)
  /\ Len(result.df.cols) < Len(result.parsed.cols)

OnlyStrings(t) ==
  /\ Len(t.rows) > 0 /\ Len(t.cols) > 0
  /\ \A i \in 1..Len(t.rows), j \in 1..Len(t.cols) : t.rows[i][j].k = "str"

\* C8: for a table of string cells only, with no empty row or column, csv to
\* json and that json back to csv both succeed and give back the header and
\* the rows of the original.
C8_RoundTrip ==
  ( /\ hop = 2
    /\ first.request.inputFormat = "csv" /\ first.request.outputFormat = "json"
    /\ first.request.payload.doc.form = "csv"
    /\ OnlyStrings(first.result.parsed)
    /\ Len(first.result.parsed.rows) = Len(first.request.payload.doc.rows) )
    => /\ Succeeded
       /\ result.content.header = first.request.payload.doc.header
       /\ result.content.rows = first.request.payload.doc.rows

Mimes == {<<MimeCsv>>, <<MimeJson>>, <<MimeXlsx>>}

\* C10: a call returns either content with a MIME type or None with a
\* message; content is returned only when the input format was supported, the
\* parse succeeded, rows remain and the output format was supported; and the
\* route answers success exactly when convert_data returned content,
\* otherwise with an error and no content.
C10_SuccessOrFailure ==
  /\ Called =>
       /\ ~Failed => result.second \in Mimes
       /\ Failed => result.second \notin Mimes /\ result.second /= <<>>
       /\ ~Failed =>
            /\ request.inputFormat \in Formats
            /\ result.parsedOk
            /\ Len(result.df.rows) > 0
            /\ request.outputFormat \in Formats
  /\ (pc = "done" /\ request.entry = "http") =>
       /\ ("success" \in response.keys) <=> Succeeded
       /\ "success" \notin response.keys =>
            /\ response.keys = {"error"}
            /\ response.error /= <<>>
            /\ response.content = NoneValue

C10_Witness ==
  /\ request.entry = "http" /\ request.dataSource = "paste"
  /\ "success" \in response.keys
  /\ response.status = 200
  /\ response.content.form = "json"

====
